---- MODULE Spec2Model ----
(***************************************************************************)
(* Model of FlowCal's gate.py: the gates start_end and density2d.          *)
(*                                                                         *)
(* Encoding of numbers.  Channel values and bin edges are real numbers in  *)
(* the program.  Here every such number is an integer count of HALVES      *)
(* (the value 1.5 is written 3), so that the default edges -0.5, 0.5, ...  *)
(* and integer event values are both representable.  Histogram indices,    *)
(* counts and event positions are plain integers.  Where the program       *)
(* compares a channel value with a histogram index (line 142) the index    *)
(* is converted to halves with AsValue.                                    *)
(*                                                                         *)
(* The retention fraction is the rational <<num, den>>.  The smoothed and  *)
(* normalised histogram D is kept as exact fractions [nan, num, den]; a    *)
(* 0/0 division yields nan, as numpy's float division does.                *)
(***************************************************************************)
EXTENDS Integers, Sequences, FiniteSets, TLC

VARIABLES data, channels, bins, sigma, cur, prev, se

vars == <<data, channels, bins, sigma, cur, prev, se>>

(***************************************************************************)
(* Bounds and input sets                                                   *)
(***************************************************************************)
MaxN == 3
MaxDiscard == 2

\* Event rows (two channels), in halves: (0,0) (1,1) (1,2) (0.5,1) (4,4)
Rows == { <<0, 0>>, <<2, 2>>, <<2, 4>>, <<1, 2>>, <<8, 8>> }

\* Bin-edge arrays, in halves: the default edges -0.5,0.5,1.5,2.5 (the head
\* of np.arange(1025)-0.5), the same edges shifted by one, and 0,2,4.
DefaultBins == <<-1, 1, 3, 5>>
ShiftedBins == <<1, 3, 5, 7>>
WideBins == <<0, 4, 8>>
BinsSet == { DefaultBins, ShiftedBins, WideBins }

\* sigma in hundredths: 0.05 and 1.0
Sigmas == { 5, 100 }

ChannelLists == { <<0, 1>>, <<1, 0>>, <<0>>, <<0, 1, 0>> }

\* gate_fraction as <<numerator, denominator>>: 1/4, 13/20 (the default), 1
Fractions == { <<1, 4>>, <<13, 20>>, <<1, 1>> }

RECURSIVE SeqsUpTo(_, _)
SeqsUpTo(S, n) ==
    IF n = 0 THEN { <<>> }
    ELSE LET shorter == SeqsUpTo(S, n - 1)
         IN  shorter \cup { Append(s, x) : s \in { t \in shorter : Len(t) = n - 1 }, x \in S }

(***************************************************************************)
(* numpy helpers                                                           *)
(***************************************************************************)
\* An array held in memory: the function f itself, with every element
\* computed once (f @@ <<>> equals f; TLC evaluates it eagerly).
Stored(f) == f @@ <<>>

\* A histogram index seen as a channel value (in halves).
AsValue(i) == i + i

\* np.ceil of a value given in halves, as an integer.
Ceil(v) == (v + 1) \div 2

\* int(np.ceil(gate_fraction * N))
CeilFraction(f, N) == (f[1] * N + f[2] - 1) \div f[2]

\* data[:,channels]
SelectChannels(d, chs) ==
    Stored([e \in 1..Len(d) |-> Stored([k \in 1..Len(chs) |-> d[e][chs[k] + 1]])])

\* data[mask] with a boolean mask
RECURSIVE BoolIndex(_, _)
BoolIndex(d, mask) ==
    IF Len(d) = 0 THEN <<>>
    ELSE LET rest == BoolIndex(Tail(d), Tail(mask))
         IN  IF Head(mask) THEN <<Head(d)>> \o rest ELSE rest

(***************************************************************************)
(* np.histogram2d                                                          *)
(***************************************************************************)
NumBins(edges) == Len(edges) - 1

\* Index of the bin holding x: half-open bins [e_k, e_k+1), the last one
\* closed; -1 when x lies outside the edges.
BinIndex(x, edges) ==
    LET nb == NumBins(edges)
        below == Cardinality({ k \in 1..Len(edges) : edges[k] <= x })
    IN  IF x = edges[Len(edges)] THEN nb - 1
        ELSE IF below = 0 \/ below > nb THEN -1
        ELSE below - 1

InRange(x, edges) == BinIndex(x, edges) # -1

Cells(nb) == (0..(nb - 1)) \X (0..(nb - 1))

\* ravel / unravel_index of an nb x nb array (row-major)
Ravel(A, nb) == Stored([lin \in 0..(nb * nb - 1) |-> A[<<lin \div nb, lin % nb>>]])

UnravelIndex(lin, nb) == <<lin \div nb, lin % nb>>

Histogram2d(xy, edges) ==
    Stored([c \in Cells(NumBins(edges)) |->
        Cardinality({ e \in 1..Len(xy) :
            /\ BinIndex(xy[e][1], edges) = c[1]
            /\ BinIndex(xy[e][2], edges) = c[2] })])

(***************************************************************************)
(* scipy.ndimage gaussian_filter, mode='constant', cval=0, truncate=6      *)
(***************************************************************************)
\* Kernel radius int(truncate * sigma + 0.5), sigma in hundredths.
Radius(s) == (6 * s + 50) \div 100

\* Kernel weight exp(-k^2 / (2 sigma^2)) in thousandths.  The kernel's
\* normalising constant is dropped: line 124 divides it out again.
Weight(s, k) ==
    IF k > Radius(s) THEN 0
    ELSE IF k = 0 THEN 1000
    ELSE IF s = 100 /\ k = 1 THEN 607
    ELSE IF s = 100 /\ k = 2 THEN 135
    ELSE IF s = 100 /\ k = 3 THEN 11
    ELSE 0

Abs(x) == IF x < 0 THEN -x ELSE x

\* f[0] + ... + f[k]
RECURSIVE SumTo(_, _)
SumTo(f, k) == IF k < 0 THEN 0 ELSE f[k] + SumTo(f, k - 1)

\* One pass of the separable filter along the given axis (1 or 2); cells
\* beyond the array count as 0.
Correlate1d(A, s, axis, nb) ==
    Stored([c \in DOMAIN A |->
        SumTo([a \in 0..(nb - 1) |->
                  Weight(s, Abs(c[axis] - a))
                    * A[IF axis = 1 THEN <<a, c[2]>> ELSE <<c[1], a>>]],
              nb - 1)])

GaussianFilter(H, s, nb) == Correlate1d(Correlate1d(H, s, 1, nb), s, 2, nb)

\* np.sum of an nb x nb array
Total(A, nb) == SumTo(Ravel(A, nb), nb * nb - 1)

\* D = bH / np.sum(bH)
Normalize(bH, nb) ==
    LET total == Total(bH, nb)
    IN  Stored([c \in DOMAIN bH |-> [nan |-> total = 0, num |-> bH[c], den |-> total]])

\* Float comparison a < b of two entries of D; false whenever a nan is
\* involved.  The entries of D share the positive denominator np.sum(bH),
\* so the numerators decide.
Less(a, b) == ~a.nan /\ ~b.nan /\ a.num < b.num

(***************************************************************************)
(* density2d, lines 126-143: ranking, selection, mask                      *)
(***************************************************************************)
\* Mutant of InsertByDensity: an ascending sort that is then reversed, which
\* puts cells of equal density in descending index order.
RECURSIVE InsertReversed(_, _, _)
InsertReversed(x, s, vD) ==
    IF s = <<>> THEN <<x>>
    ELSE IF ~Less(vD[x], vD[Head(s)]) THEN <<x>> \o s
    ELSE <<Head(s)>> \o InsertReversed(x, Tail(s), vD)

\* One insertion step of the stable descending sort: x goes before the
\* first element whose key is less than x's key, behind all the others.
RECURSIVE InsertByDensity(_, _, _)
InsertByDensity(x, s, vD) ==
    IF s = <<>> THEN <<x>>
    ELSE IF Less(vD[Head(s)], vD[x]) THEN <<x>> \o s
    ELSE <<Head(s)>> \o InsertByDensity(x, Tail(s), vD)

\* sorted(xrange(len(vD)), key=lambda idx: vD[idx], reverse=True), built
\* from the indices 0..upto taken in order.
RECURSIVE SortedByDensity(_, _)
SortedByDensity(vD, upto) ==
    IF upto < 0 THEN <<>>
    ELSE InsertByDensity(upto, SortedByDensity(vD, upto - 1), vD)

\* np.cumsum
RECURSIVE CumSum(_)
CumSum(s) ==
    IF Len(s) = 0 THEN <<>>
    ELSE LET front == CumSum(SubSeq(s, 1, Len(s) - 1))
         IN  Append(front, (IF Len(front) = 0 THEN 0 ELSE front[Len(front)]) + s[Len(s)])

\* Mutant of ReachedAt: the comparison csvH > n.
ReachedAtStrict(csvH, n) == { k \in 0..(Len(csvH) - 1) : csvH[k + 1] > n }

\* np.nonzero(csvH >= n)[0]: the 0-based positions where csvH >= n
ReachedAt(csvH, n) == { k \in 0..(Len(csvH) - 1) : csvH[k + 1] >= n }

\* np.nonzero(csvH >= n)[0][0]
FirstReached(csvH, n) ==
    CHOOSE k \in ReachedAt(csvH, n) : \A j \in ReachedAt(csvH, n) : k <= j

\* set(zip(i0,i1)) for np.unravel_index(sidx[:(Nidx+1)], H.shape)
Accepted(sidx, Nidx, nb) == { UnravelIndex(sidx[k], nb) : k \in 1..(Nidx + 1) }

\* Mutant of EventInAccepted: the test negated, tuple(event) not in accepted.
EventNotInAccepted(event, accepted) ==
    ~\E c \in accepted : event[1] = AsValue(c[1]) /\ event[2] = AsValue(c[2])

\* tuple(event) in accepted: the event's two values against the index pairs
EventInAccepted(event, accepted) ==
    \E c \in accepted : event[1] = AsValue(c[1]) /\ event[2] = AsValue(c[2])

\* mask = np.array([tuple(event) in accepted for event in data_ch[:,0:2]])
Mask(data_ch, accepted) ==
    Stored([e \in 1..Len(data_ch) |-> EventInAccepted(data_ch[e], accepted)])

\* Mutant of Gate: the mask applied to the extracted columns, data_ch[mask].
GateColumns(d, data_ch, mask) == BoolIndex(data_ch, mask)

\* gated_data = data[mask]
Gate(d, data_ch, mask) == BoolIndex(d, mask)

\* The np.mgrid of lines 147-149 has as many rows as the density array,
\* which matplotlib's Cntr requires of its x, y and z arguments.
ContourGridFits(edges) ==
    Ceil(edges[Len(edges)]) - Ceil(edges[1]) = NumBins(edges)

(***************************************************************************)
(* density2d as a whole.  The outcome of a call is a record: the exception *)
(* raised ("none" when the call returns), the source line at which the     *)
(* call ended, every local computed up to that line (the others keep an    *)
(* empty value), and the returned pair (gated_data, contour level) when    *)
(* returned is TRUE.  The contour tracer itself is not modelled: a call    *)
(* that passes line 150 returns.                                           *)
(* Lines 101-105 (the reshape of a one-dimensional data_ch and its assert) *)
(* cannot act on a list of channels, which always yields a 2D data_ch.     *)
(***************************************************************************)
NoDensity == [nan |-> TRUE, num |-> 0, den |-> 0]

NoCall ==
    [gate_fraction |-> <<0, 1>>, raised |-> "none", line |-> 0, returned |-> FALSE,
     n |-> 0, H |-> <<>>, D |-> <<>>, sidx |-> <<>>, Nidx |-> -1,
     accepted |-> {}, mask |-> <<>>, gated_data |-> <<>>, level |-> NoDensity]

\* Mutant of ChannelsOk: assert len(channels) >= 2.
ChannelsAtLeastTwo(chs) == Len(chs) >= 2

\* assert len(channels) == 2
ChannelsOk(chs) == Len(chs) = 2

\* assert data_ch.shape[0] > 1
EventsOk(data_ch) == Len(data_ch) > 1

density2d(d, chs, edges, s, f) ==
    LET call == [NoCall EXCEPT !.gate_fraction = f]
    IN
    IF ~ChannelsOk(chs)
    THEN [call EXCEPT !.raised = "AssertionError", !.line = 99]
    ELSE
    LET data_ch == SelectChannels(d, chs)
    IN
    IF ~EventsOk(data_ch)
    THEN [call EXCEPT !.raised = "AssertionError", !.line = 106]
    ELSE
    LET nb == NumBins(edges)
        n == CeilFraction(f, Len(data_ch))
        H == Histogram2d(data_ch, edges)
        bH == GaussianFilter(H, s, nb)
        D == Normalize(bH, nb)
        vD == Ravel(D, nb)
        vH == Ravel(H, nb)
        sidx == SortedByDensity(vD, nb * nb - 1)
        svH == Stored([k \in 1..Len(sidx) |-> vH[sidx[k]]])
        csvH == CumSum(svH)
        ranked == [call EXCEPT !.n = n, !.H = H, !.D = D, !.sidx = sidx]
    IN
    IF ReachedAt(csvH, n) = {}
    THEN [ranked EXCEPT !.raised = "IndexError", !.line = 135]
    ELSE
    LET Nidx == FirstReached(csvH, n)
        accepted == Accepted(sidx, Nidx, nb)
        mask == Mask(data_ch, accepted)
        gated_data == Gate(d, data_ch, mask)
        gated == [ranked EXCEPT !.Nidx = Nidx, !.accepted = accepted, !.mask = mask,
                                !.gated_data = gated_data, !.level = vD[sidx[Nidx + 1]]]
    IN
    IF ~ContourGridFits(edges)
    THEN [gated EXCEPT !.raised = "ValueError", !.line = 150]
    ELSE [gated EXCEPT !.line = 170, !.returned = TRUE]

(***************************************************************************)
(* start_end                                                               *)
(***************************************************************************)
\* Start of the slice mask[i:] of an array of N elements (Python slicing:
\* a negative i counts from the end, and everything is clipped to 0..N).
SliceFrom(i, N) ==
    IF i < 0 THEN (IF N + i < 0 THEN 0 ELSE N + i)
    ELSE (IF i > N THEN N ELSE i)

\* End of the slice mask[:i]
SliceTo(i, N) == SliceFrom(i, N)

\* mask = ones; mask[:num_start] = False; mask[-num_end:] = False
StartEndMask(N, num_start, num_end) ==
    Stored([e \in 1..N |->
        /\ ~(e - 1 < SliceTo(num_start, N))
        /\ ~(e - 1 >= SliceFrom(-num_end, N))])

NoStartEnd ==
    [called |-> FALSE, num_start |-> 0, num_end |-> 0, raised |-> "none",
     returned |-> FALSE, gated_data |-> <<>>]

start_end(d, num_start, num_end) ==
    LET call == [NoStartEnd EXCEPT !.called = TRUE, !.num_start = num_start,
                                   !.num_end = num_end]
    IN
    IF Len(d) < num_start + num_end
    THEN [call EXCEPT !.raised = "ValueError"]
    ELSE [call EXCEPT !.returned = TRUE,
                      !.gated_data = BoolIndex(d, StartEndMask(Len(d), num_start, num_end))]

(***************************************************************************)
(* Specifications                                                          *)
(***************************************************************************)
\* A caller holds an event array and gate parameters, and calls density2d
\* on them with a gate fraction of its choice; prev keeps the outcome of
\* the call before the latest one.
Init ==
    /\ data \in SeqsUpTo(Rows, MaxN)
    /\ channels \in ChannelLists
    /\ bins \in BinsSet
    /\ sigma \in Sigmas
    /\ cur = NoCall
    /\ prev = NoCall
    /\ se = NoStartEnd

Density2d(f) ==
    /\ cur' = density2d(data, channels, bins, sigma, f)
    /\ prev' = cur
    /\ UNCHANGED <<data, channels, bins, sigma, se>>

Next == \E f \in Fractions : Density2d(f)

Spec == Init /\ [][Next]_vars

\* A caller holds an event array and calls start_end on it.
InitStartEnd ==
    /\ data \in SeqsUpTo(Rows, MaxN)
    /\ channels = <<0, 1>>
    /\ bins = DefaultBins
    /\ sigma = 5
    /\ cur = NoCall
    /\ prev = NoCall
    /\ se = NoStartEnd

StartEnd(num_start, num_end) ==
    /\ se' = start_end(data, num_start, num_end)
    /\ UNCHANGED <<data, channels, bins, sigma, cur, prev>>

NextStartEnd == \E num_start \in 0..MaxDiscard, num_end \in 0..MaxDiscard : StartEnd(num_start, num_end)

SpecStartEnd == InitStartEnd /\ [][NextStartEnd]_vars

(***************************************************************************)
(* Helpers of the properties                                               *)
(***************************************************************************)
\* The columns of the latest density2d call's events that the gate reads.
GatedColumns == SelectChannels(data, channels)

\* The histogram cell of an event, binned with the call's edges.
CellOf(event) == <<BinIndex(event[1], bins), BinIndex(event[2], bins)>>

EventInBinRange(event) == InRange(event[1], bins) /\ InRange(event[2], bins)

\* a/b <= c/d for fractions with positive denominators
FracLeq(a, b) == a[1] * b[2] <= b[1] * a[2]

\* The rows of d at the positions in S, in order.
RECURSIVE Pick(_, _, _)
Pick(d, S, k) ==
    IF k > Len(d) THEN <<>>
    ELSE (IF k \in S THEN <<d[k]>> ELSE <<>>) \o Pick(d, S, k + 1)

IsSubsequence(g, d) == \E S \in SUBSET (1..Len(d)) : g = Pick(d, S, 1)

\* Raw count of the first j cells of a ranking.
RECURSIVE RawCount(_, _, _)
RawCount(H, ranking, j) ==
    IF j = 0 THEN 0
    ELSE H[UnravelIndex(ranking[j], NumBins(bins))] + RawCount(H, ranking, j - 1)

\* The call reached the given stage.
Ranked(call) == call.line \in {135, 150, 170}
Selected(call) == call.line \in {150, 170}

(***************************************************************************)
(* C1 (as claimed): a point is in the gated output exactly when the bin    *)
(* coordinate of its two channel values, binned with the histogram's       *)
(* edges, is an accepted cell; a point outside the bin range is never      *)
(* included.                                                               *)
(***************************************************************************)
C1_MaskIsRebinning ==
    cur.returned =>
        \A e \in 1..Len(data) :
            cur.mask[e] <=> (EventInBinRange(GatedColumns[e])
                             /\ CellOf(GatedColumns[e]) \in cur.accepted)

(***************************************************************************)
(* C2: the accepted cell set is exactly the cells of the shortest prefix   *)
(* of the ranking whose raw counts sum to at least ceil(fraction * N): the *)
(* raw count up to the boundary cell reaches the target and the raw count  *)
(* up to the cell before it does not.                                      *)
(***************************************************************************)
C2_AcceptedIsShortestPrefix ==
    Selected(cur) =>
        LET target == CeilFraction(cur.gate_fraction, Len(data))
            k == cur.Nidx
        IN  /\ k \in 0..(Len(cur.sidx) - 1)
            /\ cur.accepted =
                 { UnravelIndex(cur.sidx[i], NumBins(bins)) : i \in 1..(k + 1) }
            /\ RawCount(cur.H, cur.sidx, k + 1) >= target
            /\ k > 0 => RawCount(cur.H, cur.sidx, k) < target

C2_Witness ==
    /\ cur.returned
    /\ cur.Nidx > 0
    /\ cur.gate_fraction = <<13, 20>>
    /\ Len(cur.gated_data) < Len(data)

(***************************************************************************)
(* C3 (as claimed): when every point falls inside the bin range, the gated *)
(* output has at least ceil(fraction * N) points.                          *)
(***************************************************************************)
C3_GatedReachesTarget ==
    (cur.returned /\ \A e \in 1..Len(data) : EventInBinRange(GatedColumns[e])) =>
        Len(cur.gated_data) >= CeilFraction(cur.gate_fraction, Len(data))

(***************************************************************************)
(* C4: a call leaves the input array as it was, and its gated output is a  *)
(* subsequence of the input rows: unmodified rows, in input order, none    *)
(* more often than in the input, at most as many as the input has.         *)
(***************************************************************************)
C4_GatedIsSubsequence ==
    [][data' = data /\ IsSubsequence(cur'.gated_data, data)]_vars

C4_Witness ==
    /\ cur.returned
    /\ channels = <<1, 0>>
    /\ Len(cur.gated_data) > 0
    /\ Len(cur.gated_data) < Len(data)

(***************************************************************************)
(* C5: of two returning calls on the same points, channels, edges and      *)
(* sigma, the one with the smaller fraction accepts a subset of the other  *)
(* one's cells and gates no more points.                                   *)
(***************************************************************************)
C5_MonotoneInFraction ==
    (prev.returned /\ cur.returned) =>
        /\ FracLeq(prev.gate_fraction, cur.gate_fraction) =>
              /\ prev.accepted \subseteq cur.accepted
              /\ Len(prev.gated_data) <= Len(cur.gated_data)
        /\ FracLeq(cur.gate_fraction, prev.gate_fraction) =>
              /\ cur.accepted \subseteq prev.accepted
              /\ Len(cur.gated_data) <= Len(prev.gated_data)

C5_Witness ==
    /\ prev.returned
    /\ cur.returned
    /\ prev.gate_fraction = <<1, 4>>
    /\ cur.gate_fraction = <<1, 1>>
    /\ Len(prev.gated_data) < Len(cur.gated_data)

(***************************************************************************)
(* C6 (as claimed): a call whose raw histogram is all zero fails at the    *)
(* normalisation (line 124), before any ranking, and returns nothing.      *)
(***************************************************************************)
C6_EmptyFailsAtNormalization ==
    (Ranked(cur) /\ \A c \in DOMAIN cur.H : cur.H[c] = 0) =>
        /\ cur.raised # "none"
        /\ ~cur.returned
        /\ cur.line = 124
        /\ cur.sidx = <<>>

(***************************************************************************)
(* C7: a call with a channels list of length other than 2 fails with the   *)
(* assertion of line 99 (the program's InvalidInput), before any histogram,*)
(* ranking or mask is computed, and returns nothing.                       *)
(***************************************************************************)
C7_WrongChannelCountFails ==
    (cur.line # 0 /\ Len(channels) # 2) =>
        /\ cur.raised = "AssertionError"
        /\ cur.line = 99
        /\ ~cur.returned
        /\ cur.H = <<>>
        /\ cur.sidx = <<>>
        /\ cur.mask = <<>>
        /\ cur.gated_data = <<>>

C7_Witness == cur.line = 99 /\ Len(channels) = 3 /\ Len(data) >= 2

(***************************************************************************)
(* C8 (as claimed): when all events have the same values in the two gated  *)
(* channels, inside the bin range, one cell is occupied, it is ranked      *)
(* first, the prefix ends at it, and the gated output is the whole input.  *)
(***************************************************************************)
C8_IdenticalEventsAllKept ==
    (/\ cur.returned
     /\ \A e \in 1..Len(data) : GatedColumns[e] = GatedColumns[1]
     /\ EventInBinRange(GatedColumns[1])) =>
        /\ Cardinality({ c \in DOMAIN cur.H : cur.H[c] > 0 }) = 1
        /\ UnravelIndex(cur.sidx[1], NumBins(bins)) = CellOf(GatedColumns[1])
        /\ cur.Nidx = 0
        /\ cur.gated_data = data

(***************************************************************************)
(* C9: the ranking is a permutation of all linear cell indices, ordered by *)
(* non-increasing density, with cells of equal density in ascending order  *)
(* of their linear index.                                                  *)
(***************************************************************************)
C9_RankingStableDescending ==
    Ranked(cur) =>
        LET nb == NumBins(bins)
            dens(i) == cur.D[UnravelIndex(cur.sidx[i], nb)]
        IN  /\ Len(cur.sidx) = nb * nb
            /\ { cur.sidx[i] : i \in 1..Len(cur.sidx) } = 0..(nb * nb - 1)
            /\ \A i, j \in 1..Len(cur.sidx) :
                  i < j => /\ dens(i).num >= dens(j).num
                           /\ dens(i).num = dens(j).num => cur.sidx[i] < cur.sidx[j]

C9_Witness ==
    /\ cur.returned
    /\ \E i, j \in 1..Len(cur.sidx) :
          /\ i < j
          /\ cur.D[UnravelIndex(cur.sidx[i], NumBins(bins))].num
               = cur.D[UnravelIndex(cur.sidx[j], NumBins(bins))].num
          /\ cur.H[UnravelIndex(cur.sidx[i], NumBins(bins))] > 0
    /\ cur.sidx[1] # 0

(***************************************************************************)
(* C10 (as claimed): start_end raises ValueError when N < num_start +      *)
(* num_end, and otherwise returns exactly the events at positions          *)
(* num_start .. N-num_end-1, in order, also when num_end or num_start is 0.*)
(***************************************************************************)
C10_StartEndKeepsMiddle ==
    se.called =>
        IF Len(data) < se.num_start + se.num_end
        THEN se.raised = "ValueError" /\ ~se.returned
        ELSE /\ se.returned
             /\ se.gated_data = SubSeq(data, se.num_start + 1, Len(data) - se.num_end)

====
